---- MODULE Spec2Model ----
(***************************************************************************)
(* KMS/DRM graphics context driver of retroarch-go2                        *)
(* (gfx/drivers_context/drm_ctx.c).                                        *)
(*                                                                         *)
(* The driver is single threaded: every entry point of the gfx_ctx_drm     *)
(* table runs to completion before the next one starts, so each entry      *)
(* point is one action.  The calls an entry point makes into libgo2, EGL   *)
(* and the frontend are recorded, in program order, in `calls`.            *)
(***************************************************************************)
EXTENDS Integers, Sequences, FiniteSets, TLC

(***************************************************************************)
(* Bounds of the exploration.                                              *)
(***************************************************************************)
\* presentations (swap_buffers under a GPU API) over one behaviour
MaxPresent == 3
\* largest swap interval a caller passes
MaxInterval == 2

(***************************************************************************)
(* Program constants.                                                      *)
(***************************************************************************)
NULL == 0
FB_WIDTH == 480
FB_HEIGHT == 320

\* enum gfx_ctx_api, as far as this file names it, and one API it does not name
GFX_CTX_NONE == "GFX_CTX_NONE"
GFX_CTX_OPENGL_API == "GFX_CTX_OPENGL_API"
GFX_CTX_OPENGL_ES_API == "GFX_CTX_OPENGL_ES_API"
GFX_CTX_OPENVG_API == "GFX_CTX_OPENVG_API"
GFX_CTX_VULKAN_API == "GFX_CTX_VULKAN_API"

Apis == {GFX_CTX_NONE, GFX_CTX_OPENGL_API, GFX_CTX_OPENGL_ES_API,
         GFX_CTX_OPENVG_API, GFX_CTX_VULKAN_API}

\* The file is only built when HAVE_KMS is set, which needs EGL.
HAVE_EGL == TRUE

(***************************************************************************)
(* Inputs.                                                                 *)
(***************************************************************************)
\* API versions on both sides of the two version gates of bind_api
Majors == {2, 3}
Minors == {0, 1}
Intervals == 0..MaxInterval
\* requested video modes <<width, height>>; none of them is the frame size
Modes == {<<800, 600>>, <<1920, 1080>>}
\* what the caller's width and height variables hold before get_video_size
OutBefore == {[width |-> 1920, height |-> 1080]}
\* what go2_display_create, go2_presenter_create, go2_context_create and
\* go2_context_surface_lock can hand back: NULL, or the address of an object
\* (an address that was freed can come back)
Displays == {NULL, 1}
Presenters == {NULL, 2}
Contexts == {NULL, 3, 4}
Surfaces == {NULL, 5}

\* The rest of the build configuration: the #if's of bind_api.  glClear at
\* the end of set_video_mode needs the GL headers, so one of the two GL
\* flavours is always compiled in.
Builds == {b \in [HAVE_OPENGL : BOOLEAN, HAVE_OPENGLES : BOOLEAN,
                  HAVE_VG : BOOLEAN, EGL_KHR_create_context : BOOLEAN] :
             b.HAVE_OPENGL \/ b.HAVE_OPENGLES}

\* what settings->arrays.input_driver can name: "x" and another driver
InputDrivers == {"x", "udev"}
\* The platform the driver runs on: the #if's of input_driver and get_flags
\* and the input driver the settings name.  LINUX stands for
\* defined(__linux__) && !defined(ANDROID).
Platforms == [HAVE_X11 : BOOLEAN, HAVE_UDEV : BOOLEAN, LINUX : BOOLEAN,
              HAVE_SLANG : BOOLEAN, HAVE_SPIRV_CROSS : BOOLEAN,
              input_driver : InputDrivers]
FullPlatform == [HAVE_X11 |-> TRUE, HAVE_UDEV |-> TRUE, LINUX |-> TRUE,
                 HAVE_SLANG |-> TRUE, HAVE_SPIRV_CROSS |-> TRUE,
                 input_driver |-> "x"]
\* the addresses of the two input driver tables, and what their init
\* functions hand back
input_udev == 6
input_linuxraw == 7
UdevData == {NULL, 8}
LinuxrawData == {NULL, 9}

\* The builds with every API compiled in: only what bind_api returns, and
\* whether it calls egl_bind_api, depends on the build.
FullBuilds == {b \in Builds :
                 b.HAVE_OPENGL /\ b.HAVE_OPENGLES /\ b.HAVE_VG}
\* API versions further from the gates: a minor version that carries into
\* the thousands of VersionCode, and a major version that wraps it
WideMajors == {2, 3, 4294968}
WideMinors == {0, 1, 1001}

VARIABLES
    build,        \* the build configuration, fixed for a behaviour
    drm_api,      \* static enum gfx_ctx_api drm_api
    handle,       \* the gfx_ctx_drm_data_t* the caller got from init, or NULL
    drm,          \* the gfx_ctx_drm_data_t it points to
    op,           \* the entry point that ran last, with its arguments
    ret,          \* what it returned
    calls,        \* the calls it made, in order
    out,          \* the caller's width and height after get_video_size
    locked,       \* surfaces locked and not yet unlocked
    nlocks,       \* go2_context_surface_lock calls so far
    nunlocks,     \* go2_context_surface_unlock calls so far
    npresent,     \* swap_buffers calls under a GPU API so far
    mode_set,     \* set_video_mode returned true on drm since init
    ctx_epoch,    \* ... and destroy has not run on drm since
    platform,     \* the platform and the settings, fixed for a behaviour
    input,        \* the caller's *input and *input_data after input_driver
    flags,        \* the flag word set_flags was passed or get_flags returned
    proc,         \* the pointer get_proc_address returned
    held,         \* handles created for drm and not released since
    released_twice, \* a release primitive got a handle that was not held
    destroyed     \* destroy has run on drm since init: "no", "once", "again"

vars == <<build, drm_api, handle, drm, op, ret, calls, out,
          locked, nlocks, nunlocks, npresent, mode_set, ctx_epoch,
          platform, input, flags, proc, held, released_twice, destroyed>>

\* calloc(1, sizeof(gfx_ctx_drm_data_t))
gfx_ctx_drm_data_t ==
    [display |-> NULL, presenter |-> NULL, context |-> NULL, interval |-> 0,
     fb_width |-> 0, fb_height |-> 0, core_hw_context_enable |-> FALSE]

\* one call into libgo2, EGL or the frontend: the function, the handle and
\* the surface passed (or returned), the EGL API passed, and its result
Call(fn, h, s) == [fn |-> fn, h |-> h, s |-> s, api |-> "", ok |-> TRUE]
EglCall(api, ok) ==
    [fn |-> "egl_bind_api", h |-> NULL, s |-> NULL, api |-> api, ok |-> ok]

NoOp == [name |-> "none", data |-> NULL, a |-> 0, b |-> 0, api |-> GFX_CTX_NONE]
Op(name, data, a, b, api) ==
    [name |-> name, data |-> data, a |-> a, b |-> b, api |-> api]
NoOut == [width |-> 0, height |-> 0]

\* the three cases that share one branch in every switch (drm_api)
IsGpuApi(api) ==
    api \in {GFX_CTX_OPENGL_API, GFX_CTX_OPENGL_ES_API, GFX_CTX_OPENVG_API}

Count(cs, fn) == Cardinality({i \in DOMAIN cs : cs[i].fn = fn})

NoInput == [input |-> NULL, input_data |-> NULL]

\* the handles the calls cs obtained from a create primitive of libgo2, and
\* the ones they passed to a release primitive
Created(cs) ==
    {cs[i].h : i \in {j \in DOMAIN cs :
                        cs[j].fn \in {"go2_display_create",
                                      "go2_presenter_create",
                                      "go2_context_create"}}} \ {NULL}
Released(cs) ==
    {cs[i].h : i \in {j \in DOMAIN cs :
                        cs[j].fn \in {"go2_display_destroy",
                                      "go2_presenter_destroy",
                                      "go2_context_destroy"}}} \ {NULL}

\* The state before the first entry point runs, for the builds bs on the
\* platforms ps.
InitOn(bs, ps) ==
    /\ build \in bs
    /\ platform \in ps
    /\ input = NoInput
    /\ flags = {}
    /\ proc = NULL
    /\ held = {}
    /\ released_twice = FALSE
    /\ destroyed = "no"
    /\ drm_api = GFX_CTX_NONE
    /\ handle = NULL
    /\ drm = gfx_ctx_drm_data_t
    /\ op = NoOp
    /\ ret = FALSE
    /\ calls = <<>>
    /\ out = NoOut
    /\ locked = {}
    /\ nlocks = 0
    /\ nunlocks = 0
    /\ npresent = 0
    /\ mode_set = FALSE
    /\ ctx_epoch = FALSE

\* The driver with every API and every branch compiled in.
Init == InitOn(FullBuilds, {FullPlatform})
\* Every build of bind_api.
InitBind == InitOn(Builds, {FullPlatform})
\* Every platform of input_driver and get_flags.
InitPlatform == InitOn(FullBuilds, Platforms)

(***************************************************************************)
(* gfx_ctx_drm_init                                                        *)
(***************************************************************************)
gfx_ctx_drm_init_state(display, presenter) ==
    [gfx_ctx_drm_data_t EXCEPT !.display = display, !.presenter = presenter]

\* alloc is what calloc returns
gfx_ctx_drm_init_calls(alloc, display, presenter) ==
    << Call("calloc", alloc, NULL) >>
    \o (IF alloc # NULL
          THEN << Call("go2_display_create", display, NULL),
                  Call("go2_presenter_create", presenter, NULL) >>
          ELSE << >>)

\* an init that gives up when the display or the presenter is not created
gfx_ctx_drm_init_handle_checked(alloc, display, presenter) ==
    IF display = NULL \/ presenter = NULL THEN NULL ELSE alloc

\* what init returns: NULL if calloc failed, else the state, whatever the
\* two create calls returned
gfx_ctx_drm_init_handle(alloc, display, presenter) == alloc

gfx_ctx_drm_init ==
    \E alloc \in {NULL, 1}, display \in Displays, presenter \in Presenters :
        /\ alloc = NULL => (display = NULL /\ presenter = NULL)
        /\ op' = Op("init", NULL, 0, 0, GFX_CTX_NONE)
        /\ out' = NoOut
        /\ input' = NoInput
        /\ flags' = {}
        /\ proc' = NULL
        /\ handle' = gfx_ctx_drm_init_handle(alloc, display, presenter)
        /\ ret' = (handle' # NULL)
        /\ drm' = (IF alloc # NULL
                     THEN gfx_ctx_drm_init_state(display, presenter)
                     ELSE gfx_ctx_drm_data_t)
        /\ calls' = gfx_ctx_drm_init_calls(alloc, display, presenter)
        /\ mode_set' = FALSE
        /\ ctx_epoch' = FALSE
        /\ held' = Created(calls')
        /\ destroyed' = "no"
        /\ UNCHANGED <<build, platform, released_twice, destroyed, drm_api,
                       locked, nlocks, nunlocks, npresent>>

(***************************************************************************)
(* gfx_ctx_drm_destroy                                                     *)
(***************************************************************************)
\* a destroy that releases the display before the presenter
gfx_ctx_drm_destroy_calls_display_first(d) ==
    (IF d.context # NULL
       THEN << Call("go2_context_destroy", d.context, NULL) >>
       ELSE << >>)
    \o << Call("go2_display_destroy", d.display, NULL),
          Call("go2_presenter_destroy", d.presenter, NULL) >>

gfx_ctx_drm_destroy_calls(d) ==
    (IF d.context # NULL
       THEN << Call("go2_context_destroy", d.context, NULL) >>
       ELSE << >>)
    \o << Call("go2_presenter_destroy", d.presenter, NULL),
          Call("go2_display_destroy", d.display, NULL) >>

\* a destroy that leaves the released display in the state
gfx_ctx_drm_destroy_state_keeps_display(d) ==
    [d EXCEPT !.context = NULL, !.presenter = NULL]

\* a destroy that leaves the released context in the state
gfx_ctx_drm_destroy_state_keeps_context(d) ==
    [d EXCEPT !.presenter = NULL, !.display = NULL]

gfx_ctx_drm_destroy_state(d) ==
    [d EXCEPT !.context = NULL, !.presenter = NULL, !.display = NULL]

gfx_ctx_drm_destroy ==
    \E data \in {NULL, handle} :
        /\ op' = Op("destroy", data, 0, 0, GFX_CTX_NONE)
        /\ out' = NoOut
        /\ input' = NoInput
        /\ flags' = {}
        /\ proc' = NULL
        /\ ret' = FALSE
        /\ IF data = NULL
             THEN /\ calls' = <<>>
                  /\ UNCHANGED <<drm, ctx_epoch, destroyed>>
             ELSE /\ calls' = gfx_ctx_drm_destroy_calls(drm)
                  /\ drm' = gfx_ctx_drm_destroy_state(drm)
                  /\ ctx_epoch' = FALSE
                  /\ destroyed' = (IF destroyed = "no" THEN "once"
                                                       ELSE "again")
        /\ held' = held \ Released(calls')
        /\ released_twice' = (released_twice \/ ~ (Released(calls') \subseteq held))
        /\ UNCHANGED <<build, platform, drm_api, handle, locked, nlocks,
                       nunlocks, npresent, mode_set>>

(***************************************************************************)
(* gfx_ctx_drm_get_api                                                     *)
(***************************************************************************)
gfx_ctx_drm_get_api ==
    /\ op' = Op("get_api", handle, 0, 0, drm_api)
    /\ out' = NoOut
    /\ input' = NoInput
    /\ flags' = {}
    /\ proc' = NULL
    /\ ret' = FALSE
    /\ calls' = <<>>
    /\ UNCHANGED <<build, platform, held, released_twice, destroyed, drm_api,
                   handle, drm, locked, nlocks, nunlocks, npresent, mode_set,
                   ctx_epoch>>

(***************************************************************************)
(* gfx_ctx_drm_bind_api                                                    *)
(***************************************************************************)
\* a version test that scales the major version by 100
VersionCode_hundreds(major, minor) ==
    LET lo == 100 * (major % 65536) + (minor % 65536)
        hi == 100 * (major \div 65536) + (minor \div 65536) + (lo \div 65536)
    IN  [hi |-> hi % 65536, lo |-> lo % 65536]

\* major * 1000 + minor of the version test, in the 32-bit unsigned
\* arithmetic of the operands, as the two 16-bit halves of the result
VersionCode(major, minor) ==
    LET lo == 1000 * (major % 65536) + (minor % 65536)
        hi == 1000 * (major \div 65536) + (minor \div 65536) + (lo \div 65536)
    IN  [hi |-> hi % 65536, lo |-> lo % 65536]

\* code >= n, for n below 65536
AtLeast(code, n) == code.hi > 0 \/ code.lo >= n

\* a bind_api whose OpenGL-ES gate lets major 3 through
gfx_ctx_drm_bind_api_delegates_off_by_one(b, api, major, minor) ==
    CASE api = GFX_CTX_OPENGL_API ->
           /\ HAVE_EGL /\ b.HAVE_OPENGL
           /\ ~ (~ b.EGL_KHR_create_context
                 /\ AtLeast(VersionCode(major, minor), 3001))
      [] api = GFX_CTX_OPENGL_ES_API ->
           /\ HAVE_EGL /\ b.HAVE_OPENGLES
           /\ ~ (~ b.EGL_KHR_create_context /\ major > 3)
      [] api = GFX_CTX_OPENVG_API ->
           HAVE_EGL /\ b.HAVE_VG
      [] OTHER -> FALSE

\* TRUE when control reaches `return egl_bind_api(...)`
gfx_ctx_drm_bind_api_delegates(b, api, major, minor) ==
    CASE api = GFX_CTX_OPENGL_API ->
           /\ HAVE_EGL /\ b.HAVE_OPENGL
           /\ ~ (~ b.EGL_KHR_create_context
                 /\ AtLeast(VersionCode(major, minor), 3001))
      [] api = GFX_CTX_OPENGL_ES_API ->
           /\ HAVE_EGL /\ b.HAVE_OPENGLES
           /\ ~ (~ b.EGL_KHR_create_context /\ major >= 3)
      [] api = GFX_CTX_OPENVG_API ->
           HAVE_EGL /\ b.HAVE_VG
      [] OTHER -> FALSE

EGL_API(api) ==
    CASE api = GFX_CTX_OPENGL_API -> "EGL_OPENGL_API"
      [] api = GFX_CTX_OPENGL_ES_API -> "EGL_OPENGL_ES_API"
      [] api = GFX_CTX_OPENVG_API -> "EGL_OPENVG_API"
      [] OTHER -> ""

\* drm_api is assigned before the switch.  g_egl_major and g_egl_minor, the
\* globals of egl_common assigned with it, are not read in this file: the
\* version bound last is kept in op.a and op.b.
\* a bind_api that puts the old API back when it fails
gfx_ctx_drm_bind_api_selected_restored(old, api, ok) ==
    IF ok THEN api ELSE old

\* drm_api once bind_api has returned ok
gfx_ctx_drm_bind_api_selected(old, api, ok) == api

\* egl_ok is what egl_bind_api returns if it is called.
gfx_ctx_drm_bind_api_versions(majors, minors) ==
    \E api \in Apis, major \in majors, minor \in minors, egl_ok \in BOOLEAN :
        LET delegates == gfx_ctx_drm_bind_api_delegates(build, api, major, minor)
        IN  /\ delegates \/ ~ egl_ok
            /\ drm_api' = gfx_ctx_drm_bind_api_selected(
                              drm_api, api, delegates /\ egl_ok)
            /\ op' = Op("bind_api", NULL, major, minor, api)
            /\ out' = NoOut
            /\ input' = NoInput
            /\ flags' = {}
            /\ proc' = NULL
            /\ calls' = (IF delegates THEN << EglCall(EGL_API(api), egl_ok) >>
                                      ELSE << >>)
            /\ ret' = (delegates /\ egl_ok)
            /\ UNCHANGED <<build, platform, held, released_twice, destroyed,
                           handle, drm, locked, nlocks, nunlocks, npresent,
                           mode_set, ctx_epoch>>

gfx_ctx_drm_bind_api == gfx_ctx_drm_bind_api_versions(Majors, Minors)
gfx_ctx_drm_bind_api_wide == gfx_ctx_drm_bind_api_versions(WideMajors, WideMinors)

(***************************************************************************)
(* gfx_ctx_drm_swap_interval                                               *)
(***************************************************************************)
\* a swap_interval that clamps what it stores to 1
gfx_ctx_drm_swap_interval_state_clamped(d, interval) ==
    [d EXCEPT !.interval = (IF interval > 1 THEN 1 ELSE interval)]

gfx_ctx_drm_swap_interval_state(d, interval) ==
    [d EXCEPT !.interval = interval]

gfx_ctx_drm_swap_interval_calls(interval) ==
    IF interval > 1 THEN << Call("RARCH_WARN", NULL, NULL) >> ELSE << >>

\* data is dereferenced unchecked: the caller passes the state init returned
gfx_ctx_drm_swap_interval ==
    \E interval \in Intervals :
        /\ handle # NULL
        /\ op' = Op("swap_interval", handle, interval, 0, GFX_CTX_NONE)
        /\ out' = NoOut
        /\ input' = NoInput
        /\ flags' = {}
        /\ proc' = NULL
        /\ ret' = FALSE
        /\ drm' = gfx_ctx_drm_swap_interval_state(drm, interval)
        /\ calls' = gfx_ctx_drm_swap_interval_calls(interval)
        /\ UNCHANGED <<build, platform, held, released_twice, destroyed,
                       drm_api, handle, locked, nlocks, nunlocks, npresent,
                       mode_set, ctx_epoch>>

(***************************************************************************)
(* gfx_ctx_drm_set_video_mode                                              *)
(***************************************************************************)
\* a set_video_mode that creates a context on every call
gfx_ctx_drm_set_video_mode_creates_always(d) == TRUE

\* the test `if (!drm->context)` that guards go2_context_create
gfx_ctx_drm_set_video_mode_creates(d) == d.context = NULL

\* created is what go2_context_create returns if it is called
gfx_ctx_drm_set_video_mode_context(d, created) ==
    IF gfx_ctx_drm_set_video_mode_creates(d) THEN created ELSE d.context

\* a set_video_mode that takes the requested size as the frame size
gfx_ctx_drm_set_video_mode_state_requested(d, width, height, created) ==
    [d EXCEPT !.fb_width = width, !.fb_height = height,
              !.context = gfx_ctx_drm_set_video_mode_context(d, created)]

gfx_ctx_drm_set_video_mode_state(d, width, height, created) ==
    [d EXCEPT !.fb_width = FB_WIDTH, !.fb_height = FB_HEIGHT,
              !.context = gfx_ctx_drm_set_video_mode_context(d, created)]

gfx_ctx_drm_set_video_mode_calls(d, created) ==
    << Call("frontend_driver_install_signal_handler", NULL, NULL) >>
    \o (IF gfx_ctx_drm_set_video_mode_creates(d)
          THEN << Call("go2_context_create", created, NULL) >>
          ELSE << >>)
    \o << Call("go2_context_make_current",
               gfx_ctx_drm_set_video_mode_context(d, created), NULL),
          Call("glClear", NULL, NULL) >>

gfx_ctx_drm_set_video_mode ==
    \E data \in {NULL, handle}, mode \in Modes, created \in Contexts :
        /\ op' = Op("set_video_mode", data, mode[1], mode[2], GFX_CTX_NONE)
        /\ out' = NoOut
        /\ input' = NoInput
        /\ flags' = {}
        /\ proc' = NULL
        /\ IF data = NULL
             THEN /\ ret' = FALSE
                  /\ calls' = <<>>
                  /\ UNCHANGED <<drm, mode_set, ctx_epoch>>
             ELSE /\ ret' = TRUE
                  /\ calls' = gfx_ctx_drm_set_video_mode_calls(drm, created)
                  /\ drm' = gfx_ctx_drm_set_video_mode_state(
                                drm, mode[1], mode[2], created)
                  /\ mode_set' = TRUE
                  /\ ctx_epoch' = TRUE
        /\ held' = held \cup Created(calls')
        /\ UNCHANGED <<build, platform, released_twice, destroyed, drm_api,
                       handle, locked, nlocks, nunlocks, npresent>>

(***************************************************************************)
(* gfx_ctx_drm_get_video_size                                              *)
(***************************************************************************)
\* a get_video_size that zeroes the outputs when there is no state
gfx_ctx_drm_get_video_size_out_zeroes(data, d, before) ==
    IF data = NULL
      THEN NoOut
      ELSE [width |-> d.fb_width, height |-> d.fb_height]

\* before: what the caller's variables hold before the call
gfx_ctx_drm_get_video_size_out(data, d, before) ==
    IF data = NULL
      THEN before
      ELSE [width |-> d.fb_width, height |-> d.fb_height]

gfx_ctx_drm_get_video_size ==
    \E data \in {NULL, handle}, before \in OutBefore :
        /\ op' = Op("get_video_size", data, before.width, before.height,
                    GFX_CTX_NONE)
        /\ ret' = FALSE
        /\ calls' = <<>>
        /\ out' = gfx_ctx_drm_get_video_size_out(data, drm, before)
        /\ input' = NoInput
        /\ flags' = {}
        /\ proc' = NULL
        /\ UNCHANGED <<build, platform, held, released_twice, destroyed,
                       drm_api, handle, drm, locked, nlocks, nunlocks,
                       npresent, mode_set, ctx_epoch>>

(***************************************************************************)
(* gfx_ctx_drm_swap_buffers                                                *)
(***************************************************************************)
\* a swap_buffers that swaps once more for a stored interval above 1
gfx_ctx_drm_swap_buffers_calls_interval(api, d, surface) ==
    IF IsGpuApi(api)
      THEN (IF d.interval > 1
              THEN << Call("go2_context_swap_buffers", d.context, NULL) >>
              ELSE << >>)
           \o << Call("go2_context_swap_buffers", d.context, NULL),
                 Call("go2_context_surface_lock", d.context, surface),
                 Call("go2_presenter_post", d.presenter, surface),
                 Call("go2_context_surface_unlock", d.context, surface) >>
      ELSE << Call("printf", NULL, NULL) >>

\* a swap_buffers that does not unlock a NULL surface
gfx_ctx_drm_swap_buffers_calls_leak(api, d, surface) ==
    IF IsGpuApi(api)
      THEN << Call("go2_context_swap_buffers", d.context, NULL),
              Call("go2_context_surface_lock", d.context, surface),
              Call("go2_presenter_post", d.presenter, surface) >>
           \o (IF surface # NULL
                 THEN << Call("go2_context_surface_unlock", d.context, surface) >>
                 ELSE << >>)
      ELSE << Call("printf", NULL, NULL) >>

\* surface is what go2_context_surface_lock returns
gfx_ctx_drm_swap_buffers_calls(api, d, surface) ==
    IF IsGpuApi(api)
      THEN IF HAVE_EGL
             THEN << Call("go2_context_swap_buffers", d.context, NULL),
                     Call("go2_context_surface_lock", d.context, surface),
                     Call("go2_presenter_post", d.presenter, surface),
                     Call("go2_context_surface_unlock", d.context, surface) >>
             ELSE << >>
      ELSE << Call("printf", NULL, NULL) >>

\* the surfaces left locked once the calls cs have run, from l
RECURSIVE LockedAfter(_, _)
LockedAfter(l, cs) ==
    IF cs = << >> THEN l
    ELSE LET c == Head(cs)
         IN  LockedAfter(
                 CASE c.fn = "go2_context_surface_lock" -> l \cup {c.s}
                   [] c.fn = "go2_context_surface_unlock" -> l \ {c.s}
                   [] OTHER -> l,
                 Tail(cs))

\* drm is only dereferenced under a GPU API
gfx_ctx_drm_swap_buffers ==
    \E surface \in Surfaces :
        LET cs == gfx_ctx_drm_swap_buffers_calls(drm_api, drm, surface)
        IN  /\ IsGpuApi(drm_api) => handle # NULL /\ npresent < MaxPresent
            /\ op' = Op("swap_buffers", handle, surface, 0, drm_api)
            /\ out' = NoOut
            /\ input' = NoInput
            /\ flags' = {}
            /\ proc' = NULL
            /\ ret' = FALSE
            /\ calls' = cs
            /\ locked' = LockedAfter(locked, cs)
            /\ nlocks' = nlocks + Count(cs, "go2_context_surface_lock")
            /\ nunlocks' = nunlocks + Count(cs, "go2_context_surface_unlock")
            /\ npresent' = (IF IsGpuApi(drm_api) THEN npresent + 1 ELSE npresent)
            /\ UNCHANGED <<build, platform, held, released_twice, destroyed,
                           drm_api, handle, drm, mode_set, ctx_epoch>>

(***************************************************************************)
(* gfx_ctx_drm_get_proc_address                                            *)
(***************************************************************************)
\* what egl_get_proc_address returns: NULL for a symbol it does not know
Procs == {NULL, 10}

gfx_ctx_drm_get_proc_address_calls(api, resolved) ==
    IF IsGpuApi(api) /\ HAVE_EGL
      THEN << Call("egl_get_proc_address", resolved, NULL) >>
      ELSE << >>

\* a get_proc_address that asks EGL whatever the API
gfx_ctx_drm_get_proc_address_result_any_api(api, resolved) == resolved

gfx_ctx_drm_get_proc_address_result(api, resolved) ==
    IF IsGpuApi(api) /\ HAVE_EGL THEN resolved ELSE NULL

\* resolved is what egl_get_proc_address returns, or would return
gfx_ctx_drm_get_proc_address ==
    \E resolved \in Procs :
        /\ IsGpuApi(drm_api) \/ resolved # NULL
        /\ op' = Op("get_proc_address", NULL, 0, 0, drm_api)
        /\ out' = NoOut
        /\ input' = NoInput
        /\ flags' = {}
        /\ ret' = FALSE
        /\ calls' = gfx_ctx_drm_get_proc_address_calls(drm_api, resolved)
        /\ proc' = gfx_ctx_drm_get_proc_address_result(drm_api, resolved)
        /\ UNCHANGED <<build, platform, held, released_twice, destroyed,
                       drm_api, handle, drm, locked, nlocks, nunlocks,
                       npresent, mode_set, ctx_epoch>>

(***************************************************************************)
(* gfx_ctx_drm_get_flags and gfx_ctx_drm_set_flags                         *)
(***************************************************************************)
\* the bits of enum display_flags this file names; a flag word is the set
\* of its bits
GFX_CTX_FLAGS_GL_CORE_CONTEXT == "GFX_CTX_FLAGS_GL_CORE_CONTEXT"
GFX_CTX_FLAGS_CUSTOMIZABLE_SWAPCHAIN_IMAGES ==
    "GFX_CTX_FLAGS_CUSTOMIZABLE_SWAPCHAIN_IMAGES"
GFX_CTX_FLAGS_SHADERS_GLSL == "GFX_CTX_FLAGS_SHADERS_GLSL"
GFX_CTX_FLAGS_SHADERS_SLANG == "GFX_CTX_FLAGS_SHADERS_SLANG"

\* the flag words a caller passes to set_flags: with and without the core
\* context bit, with and without another bit
FlagWords == SUBSET {GFX_CTX_FLAGS_GL_CORE_CONTEXT, GFX_CTX_FLAGS_SHADERS_GLSL}
\* what video_driver_get_ident returns
VideoIdents == {"glcore", "gl"}

IdentCall(ident) ==
    [fn |-> "video_driver_get_ident", h |-> NULL, s |-> NULL, api |-> ident,
     ok |-> TRUE]

gfx_ctx_drm_get_flags_bits(p, d, ident) ==
    {GFX_CTX_FLAGS_CUSTOMIZABLE_SWAPCHAIN_IMAGES}
    \cup (IF d.core_hw_context_enable
            THEN {GFX_CTX_FLAGS_GL_CORE_CONTEXT} ELSE {})
    \cup (IF ident = "glcore"
            THEN (IF p.HAVE_SLANG /\ p.HAVE_SPIRV_CROSS
                    THEN {GFX_CTX_FLAGS_SHADERS_SLANG} ELSE {})
            ELSE {GFX_CTX_FLAGS_SHADERS_GLSL})

\* data is dereferenced unchecked: the caller passes the state init returned
gfx_ctx_drm_get_flags ==
    \E ident \in VideoIdents :
        /\ handle # NULL
        /\ op' = Op("get_flags", handle, 0, 0, GFX_CTX_NONE)
        /\ out' = NoOut
        /\ input' = NoInput
        /\ proc' = NULL
        /\ ret' = FALSE
        /\ calls' = << IdentCall(ident) >>
        /\ flags' = gfx_ctx_drm_get_flags_bits(platform, drm, ident)
        /\ UNCHANGED <<build, platform, held, released_twice, destroyed,
                       drm_api, handle, drm, locked, nlocks, nunlocks,
                       npresent, mode_set, ctx_epoch>>

\* a set_flags that copies the core context bit, set or clear
gfx_ctx_drm_set_flags_state_copies(d, f) ==
    [d EXCEPT !.core_hw_context_enable = (GFX_CTX_FLAGS_GL_CORE_CONTEXT \in f)]

gfx_ctx_drm_set_flags_state(d, f) ==
    IF GFX_CTX_FLAGS_GL_CORE_CONTEXT \in f
      THEN [d EXCEPT !.core_hw_context_enable = TRUE]
      ELSE d

\* data is dereferenced unchecked: the caller passes the state init returned
gfx_ctx_drm_set_flags ==
    \E f \in FlagWords :
        /\ handle # NULL
        /\ op' = Op("set_flags", handle, 0, 0, GFX_CTX_NONE)
        /\ out' = NoOut
        /\ input' = NoInput
        /\ proc' = NULL
        /\ ret' = FALSE
        /\ calls' = <<>>
        /\ flags' = f
        /\ drm' = gfx_ctx_drm_set_flags_state(drm, f)
        /\ UNCHANGED <<build, platform, held, released_twice, destroyed,
                       drm_api, handle, locked, nlocks, nunlocks, npresent,
                       mode_set, ctx_epoch>>

(***************************************************************************)
(* gfx_ctx_drm_input_driver                                                *)
(***************************************************************************)
\* TRUE when control reaches the block that tries the fallback drivers
gfx_ctx_drm_input_driver_falls_back(p) ==
    p.HAVE_X11 /\ p.input_driver = "x"

\* an input_driver that initialises linuxraw whatever udev returned
gfx_ctx_drm_input_driver_calls_both(p, udev, linuxraw) ==
    IF gfx_ctx_drm_input_driver_falls_back(p)
      THEN (IF p.HAVE_UDEV
              THEN << Call("input_udev.init", udev, NULL) >> ELSE << >>)
           \o (IF p.LINUX
                 THEN << Call("input_linuxraw.init", linuxraw, NULL) >>
                 ELSE << >>)
      ELSE << >>

\* udev and linuxraw are what the two init functions return if called
gfx_ctx_drm_input_driver_calls(p, udev, linuxraw) ==
    IF gfx_ctx_drm_input_driver_falls_back(p)
      THEN (IF p.HAVE_UDEV
              THEN << Call("input_udev.init", udev, NULL) >> ELSE << >>)
           \o (IF p.LINUX /\ ~ (p.HAVE_UDEV /\ udev # NULL)
                 THEN << Call("input_linuxraw.init", linuxraw, NULL) >>
                 ELSE << >>)
      ELSE << >>

gfx_ctx_drm_input_driver_result(p, udev, linuxraw) ==
    CASE gfx_ctx_drm_input_driver_falls_back(p)
           /\ p.HAVE_UDEV /\ udev # NULL ->
             [input |-> input_udev, input_data |-> udev]
      [] gfx_ctx_drm_input_driver_falls_back(p)
           /\ ~ (p.HAVE_UDEV /\ udev # NULL)
           /\ p.LINUX /\ linuxraw # NULL ->
             [input |-> input_linuxraw, input_data |-> linuxraw]
      [] OTHER -> NoInput

\* data is not used
gfx_ctx_drm_input_driver ==
    \E udev \in UdevData, linuxraw \in LinuxrawData :
        /\ op' = Op("input_driver", handle, 0, 0, GFX_CTX_NONE)
        /\ out' = NoOut
        /\ flags' = {}
        /\ proc' = NULL
        /\ ret' = FALSE
        /\ calls' = gfx_ctx_drm_input_driver_calls(platform, udev, linuxraw)
        /\ input' = gfx_ctx_drm_input_driver_result(platform, udev, linuxraw)
        /\ UNCHANGED <<build, platform, held, released_twice, destroyed,
                       drm_api, handle, drm, locked, nlocks, nunlocks,
                       npresent, mode_set, ctx_epoch>>

Next ==
    \/ gfx_ctx_drm_init
    \/ gfx_ctx_drm_destroy
    \/ gfx_ctx_drm_get_api
    \/ gfx_ctx_drm_bind_api
    \/ gfx_ctx_drm_swap_interval
    \/ gfx_ctx_drm_set_video_mode
    \/ gfx_ctx_drm_get_video_size
    \/ gfx_ctx_drm_swap_buffers
    \/ gfx_ctx_drm_get_flags
    \/ gfx_ctx_drm_set_flags
    \/ gfx_ctx_drm_input_driver
    \/ gfx_ctx_drm_get_proc_address

Spec == Init /\ [][Next]_vars

\* bind_api and get_api in every build, over the wider versions
NextBind ==
    \/ gfx_ctx_drm_bind_api_wide
    \/ gfx_ctx_drm_get_api

SpecBind == InitBind /\ [][NextBind]_vars

\* input_driver and the flags on every platform
NextPlatform ==
    \/ gfx_ctx_drm_input_driver
    \/ gfx_ctx_drm_init
    \/ gfx_ctx_drm_set_flags
    \/ gfx_ctx_drm_get_flags

SpecPlatform == InitPlatform /\ [][NextPlatform]_vars

(***************************************************************************)
(* Properties                                                              *)
(***************************************************************************)
IndexOf(cs, fn) == CHOOSE i \in DOMAIN cs : cs[i].fn = fn

\* C1: destroy on a non-null state releases the rendering context (only if
\* one exists), then the presenter, then the display: each release happens
\* once, on the handle the state held, and never before the one it follows.
C1_DestroyOrder ==
    [][ (op'.name = "destroy" /\ op'.data # NULL) =>
          /\ Count(calls', "go2_context_destroy")
                = (IF drm.context # NULL THEN 1 ELSE 0)
          /\ Count(calls', "go2_presenter_destroy") = 1
          /\ Count(calls', "go2_display_destroy") = 1
          /\ Len(calls') = (IF drm.context # NULL THEN 3 ELSE 2)
          /\ IndexOf(calls', "go2_presenter_destroy")
                < IndexOf(calls', "go2_display_destroy")
          /\ drm.context # NULL =>
                /\ IndexOf(calls', "go2_context_destroy")
                      < IndexOf(calls', "go2_presenter_destroy")
                /\ calls'[IndexOf(calls', "go2_context_destroy")].h = drm.context
          /\ calls'[IndexOf(calls', "go2_presenter_destroy")].h = drm.presenter
          /\ calls'[IndexOf(calls', "go2_display_destroy")].h = drm.display
      ]_vars

\* a destroy that found a context, a presenter and a display to release
C1_Witness ==
    /\ op.name = "destroy" /\ op.data # NULL
    /\ Len(calls) = 3
    /\ calls[1].h # NULL /\ calls[2].h # NULL /\ calls[3].h # NULL

\* C2: every swap_buffers under a GPU API makes exactly the calls swap,
\* lock, presenter post, unlock, the post and the unlock on the surface the
\* lock returned; after k such calls there have been k locks and k unlocks
\* and no surface is left locked.
C2_PresentPaired ==
    /\ (op.name = "swap_buffers" /\ IsGpuApi(op.api)) =>
          /\ [i \in DOMAIN calls |-> calls[i].fn]
                = << "go2_context_swap_buffers", "go2_context_surface_lock",
                     "go2_presenter_post", "go2_context_surface_unlock" >>
          /\ calls[1].h = drm.context /\ calls[2].h = drm.context
          /\ calls[3].h = drm.presenter /\ calls[4].h = drm.context
          /\ calls[3].s = calls[2].s /\ calls[4].s = calls[2].s
    /\ nlocks = npresent
    /\ nunlocks = npresent
    /\ locked = {}

\* the third presentation of a behaviour
C2_Witness ==
    /\ op.name = "swap_buffers" /\ IsGpuApi(op.api)
    /\ npresent = 3 /\ nlocks = 3 /\ nunlocks = 3

\* C3: the state holds a rendering context only if set_video_mode has
\* returned true on it since init and destroy has not run on it since; the
\* context is NULL right after init and right after destroy.
C3_ContextOnlyAfterModeSet ==
    /\ (handle # NULL /\ drm.context # NULL) => (mode_set /\ ctx_epoch)
    /\ (op.name = "init" /\ ret) => drm.context = NULL
    /\ (op.name = "destroy" /\ op.data # NULL) => drm.context = NULL

\* a destroy of a state whose mode had been set
C3_Witness ==
    /\ op.name = "destroy" /\ op.data # NULL
    /\ mode_set /\ ~ ctx_epoch
    /\ Count(calls, "go2_context_destroy") = 1

\* C4: a set_video_mode on a state that already holds a context does not
\* call go2_context_create and leaves the context handle as it was; it makes
\* that context current and clears.
C4_ContextCreatedOnce ==
    [][ (op'.name = "set_video_mode" /\ op'.data # NULL /\ drm.context # NULL) =>
          /\ drm'.context = drm.context
          /\ Count(calls', "go2_context_create") = 0
          /\ calls' = << Call("frontend_driver_install_signal_handler", NULL, NULL),
                         Call("go2_context_make_current", drm.context, NULL),
                         Call("glClear", NULL, NULL) >>
      ]_vars

\* a set_video_mode that found the context of an earlier one
C4_Witness ==
    /\ op.name = "set_video_mode" /\ ret
    /\ drm.context # NULL
    /\ Count(calls, "go2_context_create") = 0

\* C5: once set_video_mode has returned true on a state, the state's frame
\* size is 480x320 and every get_video_size on it reports 480x320, whatever
\* size was requested.
C5_FixedSizeAfterModeSet ==
    (handle # NULL /\ mode_set) =>
        /\ drm.fb_width = 480 /\ drm.fb_height = 320
        /\ (op.name = "get_video_size" /\ op.data # NULL) =>
              out = [width |-> 480, height |-> 320]

\* a get_video_size after a set_video_mode (which requested another size)
C5_Witness ==
    /\ op.name = "get_video_size" /\ op.data # NULL
    /\ mode_set
    /\ out = [width |-> 480, height |-> 320]
    /\ \A mode \in Modes : mode[1] # 480 /\ mode[2] # 320

\* C6: get_video_size on a non-null state reports 480x320 in every state
\* from init to destroy, also before the first set_video_mode.
C6_FixedSizeAlways ==
    (op.name = "get_video_size" /\ op.data # NULL) =>
        out = [width |-> 480, height |-> 320]

\* C7 as claimed: the stored swap interval is at least 0 and at most 1.
C7_StoredIntervalClamped ==
    handle # NULL => drm.interval \in 0..1

\* C7: the stored swap interval is the value last passed to swap_interval
\* (0 in a state fresh from init); a value above 1 is stored as it is and
\* only draws a warning.
C7_StoredIntervalIsRequested ==
    /\ op.name = "swap_interval" =>
          /\ drm.interval = op.a
          /\ Count(calls, "RARCH_WARN") = (IF op.a > 1 THEN 1 ELSE 0)
    /\ (op.name = "init" /\ ret) => drm.interval = 0

\* a swap_interval with a value above 1
C7_Witness ==
    /\ op.name = "swap_interval"
    /\ op.a > 1
    /\ drm.interval = op.a

\* C8: a swap_buffers on a state whose stored interval is above 1 makes the
\* calls it makes when the stored interval is 1: one swap, one lock, one
\* presenter post, one unlock; swap_interval(n) with n > 1 warns.
C8_PresentsAsWithIntervalOne ==
    /\ (op.name = "swap_buffers" /\ op.data # NULL /\ drm.interval > 1) =>
          /\ calls = gfx_ctx_drm_swap_buffers_calls(
                         op.api, [drm EXCEPT !.interval = 1], op.a)
          /\ IsGpuApi(op.api) =>
                /\ Count(calls, "go2_context_swap_buffers") = 1
                /\ Count(calls, "go2_presenter_post") = 1
    /\ (op.name = "swap_interval" /\ op.a > 1) =>
          calls = << Call("RARCH_WARN", NULL, NULL) >>

\* a presentation on a state whose stored interval is above 1
C8_Witness ==
    /\ op.name = "swap_buffers" /\ IsGpuApi(op.api)
    /\ drm.interval > 1
    /\ Count(calls, "go2_presenter_post") = 1

\* C9 as claimed: bind_api(OpenGL-ES, major, minor) returns false without
\* calling egl_bind_api when the extension is missing and major >= 3, and in
\* every other case calls egl_bind_api and returns its result.
C9_EsGate ==
    (op.name = "bind_api" /\ op.api = GFX_CTX_OPENGL_ES_API) =>
        IF ~ build.EGL_KHR_create_context /\ op.a >= 3
          THEN ~ ret /\ calls = << >>
          ELSE /\ Len(calls) = 1
               /\ calls[1].fn = "egl_bind_api"
               /\ calls[1].api = "EGL_OPENGL_ES_API"
               /\ ret = calls[1].ok

\* C9: in a build with OpenGL-ES support, bind_api(OpenGL-ES, major, minor)
\* returns false without calling egl_bind_api when the extension is missing
\* and major >= 3, and in every other case calls egl_bind_api and returns
\* its result; in a build without OpenGL-ES support it returns false without
\* calling egl_bind_api.
C9_EsGateWhenCompiledIn ==
    (op.name = "bind_api" /\ op.api = GFX_CTX_OPENGL_ES_API) =>
        IF ~ build.HAVE_OPENGLES
             \/ (~ build.EGL_KHR_create_context /\ op.a >= 3)
          THEN ~ ret /\ calls = << >>
          ELSE /\ Len(calls) = 1
               /\ calls[1].fn = "egl_bind_api"
               /\ calls[1].api = "EGL_OPENGL_ES_API"
               /\ ret = calls[1].ok

\* bind_api(OpenGL-ES, 3, 0) rejected for want of the extension
C9_Witness ==
    /\ op.name = "bind_api" /\ op.api = GFX_CTX_OPENGL_ES_API
    /\ op.a = 3 /\ op.b = 0
    /\ build.HAVE_OPENGLES /\ ~ build.EGL_KHR_create_context
    /\ ~ ret /\ calls = << >>

\* bind_api(OpenGL-ES, 3, 0) delegated, and successful, with the extension
C9_WitnessDelegated ==
    /\ op.name = "bind_api" /\ op.api = GFX_CTX_OPENGL_ES_API
    /\ op.a = 3 /\ op.b = 0
    /\ build.HAVE_OPENGLES /\ build.EGL_KHR_create_context
    /\ ret /\ Len(calls) = 1

\* C10: a bind_api with an API other than the selected one, on a state that
\* holds a rendering context, either returns false and leaves the selected
\* API as it was, or leaves the state without that context.
C10_NoApiChangeUnderContext ==
    [][ (op'.name = "bind_api" /\ handle # NULL /\ drm.context # NULL
         /\ op'.api # drm_api) =>
          \/ (~ ret' /\ drm_api' = drm_api)
          \/ drm'.context = NULL
      ]_vars
\* C11: set_flags with the core context bit makes core_hw_context_enable
\* true and set_flags without it leaves the state as it was; only init, which
\* starts a new state, changes core_hw_context_enable otherwise, so every
\* later get_flags on the state reports the bit; and get_flags reports
\* GFX_CTX_FLAGS_GL_CORE_CONTEXT exactly when core_hw_context_enable is true.
C11_CoreFlag ==
    [][/\ (op'.name = "set_flags"
            /\ GFX_CTX_FLAGS_GL_CORE_CONTEXT \in flags')
           => drm'.core_hw_context_enable
       /\ (op'.name = "set_flags"
            /\ GFX_CTX_FLAGS_GL_CORE_CONTEXT \notin flags')
           => drm' = drm
       /\ (op'.name \notin {"set_flags", "init"})
           => drm'.core_hw_context_enable = drm.core_hw_context_enable
       /\ (op'.name = "get_flags")
           => (GFX_CTX_FLAGS_GL_CORE_CONTEXT \in flags'
                 <=> drm.core_hw_context_enable)]_vars

\* get_flags reports the core context bit on a state whose context exists:
\* set_flags set it before and set_video_mode ran since
C11_Witness ==
    /\ op.name = "get_flags"
    /\ GFX_CTX_FLAGS_GL_CORE_CONTEXT \in flags
    /\ drm.context # NULL

\* the results of the calls of cs to fn that did not return NULL
Successes(cs, fn) ==
    {cs[i].h : i \in {j \in DOMAIN cs : cs[j].fn = fn}} \ {NULL}

\* C12 as claimed: input_driver hands back a driver and its data or NULL and
\* NULL; when the settings name "x", input_udev.init, if compiled in, is the
\* first call, and if it succeeds input_udev is handed back and
\* input_linuxraw.init is not called; input_linuxraw is handed back only if
\* udev is not compiled in or its init failed; if the name is not "x" or no
\* init succeeds NULL and NULL are handed back, and every init result that
\* is not NULL is handed back.
C12_InputFallback ==
    op.name = "input_driver" =>
        LET udev == Successes(calls, "input_udev.init")
            linuxraw == Successes(calls, "input_linuxraw.init")
        IN  /\ (input.input = NULL) <=> (input.input_data = NULL)
            /\ (platform.input_driver = "x" /\ platform.HAVE_UDEV)
                  => (calls # << >> /\ calls[1].fn = "input_udev.init")
            /\ udev # {}
                  => /\ input = [input |-> input_udev,
                                 input_data |-> CHOOSE d \in udev : TRUE]
                     /\ Count(calls, "input_linuxraw.init") = 0
            /\ input.input = input_linuxraw
                  => /\ ~ platform.HAVE_UDEV
                        \/ (Count(calls, "input_udev.init") = 1 /\ udev = {})
                     /\ input.input_data \in linuxraw
            /\ (platform.input_driver # "x" \/ udev \cup linuxraw = {})
                  => input = NoInput
            /\ platform.input_driver # "x" => calls = << >>
            /\ udev \cup linuxraw \subseteq {input.input_data}

\* C12: in a build with HAVE_X11 the fallback is as claimed: with "x" named,
\* input_udev.init, if compiled in, is called first and wins if it succeeds,
\* input_linuxraw.init is called only on Linux and only if udev is not
\* compiled in or failed, and wins if it succeeds; a driver is handed back
\* with its data, or NULL with NULL; a name other than "x", or no successful
\* init, gives NULL and NULL; no init result is dropped.  In a build
\* without HAVE_X11 no init is called and NULL and NULL are handed back,
\* whatever the settings name.
C12_InputFallbackUnderX11 ==
    op.name = "input_driver" =>
        LET udev == Successes(calls, "input_udev.init")
            linuxraw == Successes(calls, "input_linuxraw.init")
        IN  /\ (input.input = NULL) <=> (input.input_data = NULL)
            /\ (platform.HAVE_X11 /\ platform.input_driver = "x"
                   /\ platform.HAVE_UDEV)
                  => (calls # << >> /\ calls[1].fn = "input_udev.init")
            /\ (platform.HAVE_X11 /\ platform.input_driver = "x"
                   /\ platform.LINUX /\ udev = {})
                  => calls[Len(calls)].fn = "input_linuxraw.init"
            /\ udev # {}
                  => /\ input = [input |-> input_udev,
                                 input_data |-> CHOOSE d \in udev : TRUE]
                     /\ Count(calls, "input_linuxraw.init") = 0
            /\ input.input = input_linuxraw
                  => /\ ~ platform.HAVE_UDEV
                        \/ (Count(calls, "input_udev.init") = 1 /\ udev = {})
                     /\ platform.LINUX
                     /\ input.input_data \in linuxraw
            /\ (udev = {} /\ linuxraw # {}) => input.input = input_linuxraw
            /\ (platform.input_driver # "x" \/ udev \cup linuxraw = {})
                  => input = NoInput
            /\ (platform.input_driver # "x" \/ ~ platform.HAVE_X11)
                  => (calls = << >> /\ input = NoInput)
            /\ udev \cup linuxraw \subseteq {input.input_data}
            /\ Count(calls, "input_udev.init") <= 1
            /\ Count(calls, "input_linuxraw.init") <= 1

\* "x" named, input_udev.init failed, input_linuxraw.init succeeded
C12_Witness ==
    /\ op.name = "input_driver"
    /\ platform.input_driver = "x"
    /\ Len(calls) = 2
    /\ calls[1].fn = "input_udev.init" /\ calls[1].h = NULL
    /\ calls[2].fn = "input_linuxraw.init"
    /\ input.input = input_linuxraw /\ input.input_data # NULL

\* C13: destroy on NULL makes no call and changes nothing; get_video_size
\* on NULL leaves the caller's width and height as they were;
\* set_video_mode on NULL makes no call and changes nothing; set_video_mode
\* returns false exactly when the state is NULL.
C13_NullHandleNoOps ==
    [][/\ (op'.name = "destroy" /\ op'.data = NULL)
           => (calls' = << >> /\ drm' = drm /\ held' = held)
       /\ (op'.name = "get_video_size" /\ op'.data = NULL)
           => out' = [width |-> op'.a, height |-> op'.b]
       /\ (op'.name = "set_video_mode" /\ op'.data = NULL)
           => (calls' = << >> /\ drm' = drm)
       /\ (op'.name = "set_video_mode")
           => (ret' <=> op'.data # NULL)]_vars

\* get_video_size on NULL while a state whose mode is set exists
C13_Witness ==
    /\ op.name = "get_video_size" /\ op.data = NULL
    /\ handle # NULL /\ drm.fb_width = FB_WIDTH
    /\ out = [width |-> 1920, height |-> 1080]

\* C14: init creates the display before the presenter, and after every
\* entry point the state holds a display exactly when it holds a presenter;
\* it holds them only from init to destroy.
C14_DisplayAndPresenterTogether ==
    /\ (op.name = "init" /\ ret)
          => (/\ Count(calls, "go2_display_create") = 1
              /\ Count(calls, "go2_presenter_create") = 1
              /\ IndexOf(calls, "go2_display_create")
                    < IndexOf(calls, "go2_presenter_create"))
    /\ (drm.display # NULL) <=> (drm.presenter # NULL)
    /\ handle = NULL => drm.display = NULL
    /\ (op.name = "destroy" /\ op.data # NULL) => drm.display = NULL

\* C15: init returns NULL exactly when calloc fails; when calloc succeeds it
\* returns the state, which holds whatever the two create calls returned,
\* NULL included, and it calls no release primitive.
C15_InitFailsOnlyOnAlloc ==
    op.name = "init" =>
        /\ calls[1].fn = "calloc"
        /\ (handle = NULL) <=> (calls[1].h = NULL)
        /\ ret <=> (handle # NULL)
        /\ calls[1].h # NULL
              => (/\ Len(calls) = 3
                  /\ drm.display = calls[2].h
                  /\ drm.presenter = calls[3].h)
        /\ Released(calls) = {}
        /\ \A i \in DOMAIN calls :
              calls[i].fn \in {"calloc", "go2_display_create",
                               "go2_presenter_create"}

\* init returned a state whose presenter was not created
C15_Witness ==
    /\ op.name = "init" /\ handle # NULL
    /\ drm.display # NULL /\ drm.presenter = NULL

\* version (major, minor) is (major0, minor0) or later
VersionAtLeast(major, minor, major0, minor0) ==
    major > major0 \/ (major = major0 /\ minor >= minor0)

\* C16 as claimed: without the extension, bind_api(OpenGL, major, minor)
\* returns false without calling egl_bind_api when the version is 3.1 or
\* later, and calls egl_bind_api and returns its result for 3.0 and earlier;
\* major * 1000 + minor >= 3001 says the same as (major, minor) >= (3, 1).
C16_GlGate ==
    (op.name = "bind_api" /\ op.api = GFX_CTX_OPENGL_API
       /\ ~ build.EGL_KHR_create_context) =>
        /\ IF VersionAtLeast(op.a, op.b, 3, 1)
             THEN ~ ret /\ calls = << >>
             ELSE /\ Len(calls) = 1
                  /\ calls[1].fn = "egl_bind_api"
                  /\ calls[1].api = "EGL_OPENGL_API"
                  /\ ret = calls[1].ok
        /\ AtLeast(VersionCode(op.a, op.b), 3001)
              <=> VersionAtLeast(op.a, op.b, 3, 1)

\* C16: in a build with OpenGL support and without the extension,
\* bind_api(OpenGL, major, minor) either returns false without calling
\* egl_bind_api or calls it and returns its result; for a minor version
\* below 1000 and a major version below 4294967, where major * 1000 + minor
\* neither carries nor wraps, it rejects exactly the versions 3.1 and
\* later; beyond that range the encoded comparison decides: 2.1001 is
\* rejected and 4294968.0 is delegated.  In a build without OpenGL support
\* it returns false without calling egl_bind_api.
C16_GlGateInRange ==
    (op.name = "bind_api" /\ op.api = GFX_CTX_OPENGL_API
       /\ ~ build.EGL_KHR_create_context) =>
        LET rejected == ~ ret /\ calls = << >>
            delegated == /\ Len(calls) = 1
                         /\ calls[1].fn = "egl_bind_api"
                         /\ calls[1].api = "EGL_OPENGL_API"
                         /\ ret = calls[1].ok
        IN  /\ rejected \/ delegated
            /\ ~ build.HAVE_OPENGL => rejected
            /\ (build.HAVE_OPENGL /\ op.a < 4294967 /\ op.b < 1000)
                  => (rejected <=> VersionAtLeast(op.a, op.b, 3, 1))
            /\ (build.HAVE_OPENGL /\ op.a = 2 /\ op.b = 1001) => rejected
            /\ (build.HAVE_OPENGL /\ op.a = 4294968 /\ op.b = 0) => delegated

\* bind_api(OpenGL, 3, 1) rejected for want of the extension
C16_Witness ==
    /\ op.name = "bind_api" /\ op.api = GFX_CTX_OPENGL_API
    /\ op.a = 3 /\ op.b = 1
    /\ build.HAVE_OPENGL /\ ~ build.EGL_KHR_create_context
    /\ ~ ret /\ calls = << >>

\* C17: with an API selected that is none of OpenGL, OpenGL-ES and OpenVG
\* (GFX_CTX_NONE, as before the first bind_api, included), swap_buffers
\* calls none of swap, lock, post and unlock and leaves the state, the
\* locked surfaces and the selected API as they were, and get_proc_address
\* returns NULL without asking EGL.
C17_NoDispatchWithoutGpuApi ==
    [][(op'.api \notin {GFX_CTX_OPENGL_API, GFX_CTX_OPENGL_ES_API,
                        GFX_CTX_OPENVG_API}) =>
         /\ (op'.name = "swap_buffers")
               => (/\ \A i \in DOMAIN calls' :
                        calls'[i].fn \notin {"go2_context_swap_buffers",
                                             "go2_context_surface_lock",
                                             "go2_presenter_post",
                                             "go2_context_surface_unlock"}
                   /\ op'.api = drm_api
                   /\ drm' = drm /\ drm_api' = drm_api
                   /\ locked' = locked /\ held' = held
                   /\ nlocks' = nlocks /\ nunlocks' = nunlocks)
         /\ (op'.name = "get_proc_address")
               => (/\ op'.api = drm_api
                   /\ proc' = NULL
                   /\ calls' = << >>)]_vars

\* swap_buffers before any bind_api, on a state that holds a context
C17_Witness ==
    /\ op.name = "swap_buffers" /\ op.api = GFX_CTX_NONE
    /\ handle # NULL /\ drm.context # NULL /\ drm.presenter # NULL
    /\ npresent = 0

\* C18: every bind_api, whatever it returns, leaves its api argument as the
\* selected API, and no other entry point changes the selected API; get_api
\* returns it, and swap_buffers and get_proc_address dispatch on it.
C18_BindRecordsApi ==
    [][/\ (op'.name = "bind_api") => drm_api' = op'.api
       /\ (op'.name # "bind_api") => drm_api' = drm_api
       /\ (op'.name = "get_api") => op'.api = drm_api
       /\ (op'.name = "swap_buffers")
             => (Count(calls', "go2_presenter_post") = 1 <=> IsGpuApi(drm_api))
       /\ (op'.name = "get_proc_address")
             => (Count(calls', "egl_get_proc_address") = 1
                   <=> IsGpuApi(drm_api))]_vars

\* bind_api(OpenGL, 3, 1) rejected by the version gate, OpenGL selected
C18_Witness ==
    /\ op.name = "bind_api" /\ ~ ret /\ calls = << >>
    /\ op.api = GFX_CTX_OPENGL_API /\ op.a = 3 /\ op.b = 1
    /\ drm_api = GFX_CTX_OPENGL_API

\* C19: no release primitive is ever passed a handle that is not NULL and
\* is not held, that is, one that was released and not created again: a
\* destroy leaves display, presenter and context NULL and nothing held, so
\* a later destroy of the state passes NULL to go2_presenter_destroy and
\* go2_display_destroy, and calls go2_context_destroy only on a context
\* created since.
C19_NoDoubleRelease ==
    /\ ~ released_twice
    /\ (op.name = "destroy" /\ op.data # NULL)
          => (/\ drm.display = NULL /\ drm.presenter = NULL
              /\ drm.context = NULL
              /\ held = {})
    /\ (op.name = "destroy" /\ op.data # NULL /\ destroyed = "again")
          => \A i \in DOMAIN calls :
                calls[i].fn \in {"go2_presenter_destroy",
                                 "go2_display_destroy"}
                  => calls[i].h = NULL

\* a second destroy of a state, with nothing created since the first
C19_Witness ==
    /\ op.name = "destroy" /\ op.data # NULL
    /\ destroyed = "again"
    /\ mode_set
    /\ calls = << Call("go2_presenter_destroy", NULL, NULL),
                  Call("go2_display_destroy", NULL, NULL) >>

\* C20: every swap_buffers under a GPU API runs on a state that holds a
\* rendering context, and passes that context, not NULL, to swap, lock and
\* unlock.
C20_ContextWhenPresenting ==
    (op.name = "swap_buffers" /\ IsGpuApi(op.api)) =>
        /\ drm.context # NULL
        /\ \A i \in DOMAIN calls :
              calls[i].fn \in {"go2_context_swap_buffers",
                               "go2_context_surface_lock",
                               "go2_context_surface_unlock"}
                => calls[i].h # NULL

====
